---- MODULE Spec2Model ----
(***************************************************************************)
(* TokenEngine (src/core/token_engine.py) and Transaction                  *)
(* (src/agents/base.py): balances, escrow holds, validator stakes, the     *)
(* hash-chained ledger and the four JSON files they are persisted to.      *)
(*                                                                         *)
(* Amounts are integers counted in thousandths of a token, so that an      *)
(* input finer than the configured precision exists and round() has work   *)
(* to do.  A Python number is either an int or a float; the ledger and the *)
(* escrow table keep the number the caller passed, so an amount there is a *)
(* pair [v, int]: its value and whether it is a Python int (json.dumps     *)
(* writes 100 for the one and 100.0 for the other).                        *)
(***************************************************************************)
EXTENDS Integers, Sequences, FiniteSets, TLC

(* ------------------------------ bounds -------------------------------- *)

\* longest ledger explored
MaxLedger == 3
\* most _save failures and process stops in one run
MaxFaults == 1
\* most slash calls that follow the minting and staking of one run
MaxSlashes == 12

(* ------------------------- program constants -------------------------- *)

\* thousandths per token: the unit every amount of the model is counted in
Milli == 10 * 100
\* the default of self._decimals
DefaultDecimals == 2
\* self._decimals, read from the configuration at construction
VARIABLE decimals
\* self._slash_percent, in percent
slash_percent == 20
\* the literal 0.01 of slash(), in thousandths
min_slash == 10
\* self._validator_stake_required, in tokens
validator_stake_required == 50

treasury_name == "marketplace"
\* the default of self._hash_chain_enabled
DefaultHashChain == TRUE
\* self._hash_chain_enabled, read from the configuration at construction
VARIABLE hash_chain_enabled

(* ------------------------------- inputs ------------------------------- *)

Entities == {"alice", treasury_name}
Tasks == {"t1", "t2"}
Memos == {""}
\* what _generate_id may read and draw: the second of datetime.now() and the
\* four random characters
Seconds == {0, 1}
Rands == {"a1b2", "c3d4"}
Stamps == Seconds \X Rands
\* every call within one second, and one clock that ticks
SameStamp == {<<0, "a1b2">>}
SameRand == Seconds \X {"a1b2"}

Amt(v, i) == [v |-> v, int |-> i]
\* the floats -0.01, 0.004, 0.01 and 0.014 and the int 1
Amounts == {Amt(-10, FALSE), Amt(4, FALSE), Amt(10, FALSE), Amt(14, FALSE),
            Amt(Milli, TRUE)}
\* unstake's amount None
NoneAmt == Amt(-1, TRUE)

(* ------------------------------ helpers ------------------------------- *)

EmptyMap == [x \in {} |-> 0]
Put(f, k, v) == [x \in (DOMAIN f) \cup {k} |-> IF x = k THEN v ELSE f[x]]
Del(f, k) == [x \in (DOMAIN f) \ {k} |-> f[x]]
Get(f, k, d) == IF k \in DOMAIN f THEN f[k] ELSE d

RECURSIVE SumMap(_)
SumMap(f) ==
    IF DOMAIN f = {} THEN 0
    ELSE LET k == CHOOSE x \in DOMAIN f : TRUE IN f[k] + SumMap(Del(f, k))

RECURSIVE Pow10(_)
Pow10(n) == IF n = 0 THEN 1 ELSE 10 * Pow10(n - 1)

\* one minimum unit at the configured precision, in thousandths
Unit == Pow10(3 - decimals)

\* The thousandths m below 200 with m % 10 = 5 whose nearest double lies above
\* the decimal tie, so that Python's round(m/1000, 2) goes up; the others
\* (0.015, 0.045, ...) lie below it and go down.
TiesUp == {5, 25, 35, 55, 65, 85, 95, 115, 135, 165, 195}

\* round(x, self._decimals) of a float x given in thousandths
RoundFloat(m) ==
    LET r == m % Unit
        h == Unit \div 2
    IN  IF r = 0 THEN m
        ELSE IF r < h THEN m - r
        ELSE IF r > h THEN m - r + Unit
        ELSE IF m \in TiesUp THEN m - r + Unit ELSE m - r

\* TokenEngine._round: round() of an int is that int, of a float a float
round_unrounded(a) == a
round_(a) == IF a.int THEN a ELSE Amt(RoundFloat(a.v), FALSE)

(* ---------------------------- Transaction ------------------------------ *)

NoHash == <<>>
NoTask == "None"

generate_id(prefix, ts, rand) == <<prefix, ts, rand>>

\* the JSON text of a number: 100 and 100.0 are different texts
JsonNum(a) == <<a.v, a.int>>

\* Transaction.compute_hash: SHA-256 of the JSON dump of all nine fields,
\* modelled as the injective tuple of what is dumped
compute_hash_excluding_prev_hash(t) ==
    <<t.id, t.type, t.from_entity, t.to_entity, JsonNum(t.amount), t.memo,
      t.timestamp, t.task_id>>
compute_hash(t) ==
    <<t.id, t.type, t.from_entity, t.to_entity, JsonNum(t.amount), t.memo,
      t.timestamp, t.task_id, t.prev_hash>>

\* Transaction.to_dict / Transaction.from_dict
to_dict(t) == t
from_dict(d) == [d EXCEPT !.amount = Amt(d.amount.v, FALSE)]

\* Python's == on two numbers, on two Transactions, on two ledgers
NumEq(a, b) == a.v = b.v
TxnEq(s, t) == [s EXCEPT !.amount = Amt(s.amount.v, FALSE)]
               = [t EXCEPT !.amount = Amt(t.amount.v, FALSE)]
LedgerEq(k, l) == Len(k) = Len(l) /\ \A i \in 1..Len(k) : TxnEq(k[i], l[i])

(* ------------------------------- state -------------------------------- *)

VARIABLES
    balances,   \* self._balances: entity -> float
    escrows,    \* self._escrows: task_id -> [from, amount]
    stakes,     \* self._stakes: entity -> float
    ledger,     \* self._ledger: sequence of Transaction
    disk,       \* the four files under storage_dir
    alive,      \* an engine instance exists (the process runs)
    clock,      \* the second datetime.now() reads
    last,       \* the last call: its name, the exception it raised, its return
    tampered,   \* a stored record was edited behind the engine's back
    snap,       \* the states before and after the operation a crash cut short
    faults,     \* how many times _save failed or the process stopped
    threads,    \* two transfer calls in flight on one engine: where each stands
    cap,        \* the longest ledger this run explores
    handle      \* what the caller holds: the object the last query returned

vars == <<balances, escrows, stakes, ledger, disk, alive, clock, last, tampered, snap,
          faults, threads, decimals, hash_chain_enabled, cap, handle>>

State(b, e, s, l) == [balances |-> b, escrows |-> e, stakes |-> s, ledger |-> l]
Mem == State(balances, escrows, stakes, ledger)
EmptyState == State(EmptyMap, EmptyMap, EmptyMap, <<>>)

Absent == [st |-> "absent", data |-> <<>>]
Torn == [st |-> "torn", data |-> <<>>]
File(d) == [st |-> "ok", data |-> d]

FileNames == <<"balances", "escrows", "stakes", "ledger">>

(* ----------------------------- persistence ---------------------------- *)

\* How a call of _save ends: it wrote its first k files in full; torn: the next
\* one was opened for writing (truncated) and not completed; crash: the process
\* stopped there, otherwise (k < 4) open() or write() raised OSError.
OkSave == [k |-> 4, torn |-> FALSE, crash |-> FALSE]
SaveOutcomes ==
    {o \in [k : 0..4, torn : BOOLEAN, crash : BOOLEAN] : o.k = 4 => ~o.torn}

Dumped(st) ==
    [balances |-> st.balances, escrows |-> st.escrows, stakes |-> st.stakes,
     ledger |-> [i \in 1..Len(st.ledger) |-> to_dict(st.ledger[i])]]

\* TokenEngine._save
save(d, st, o) ==
    [n \in {"balances", "escrows", "stakes", "ledger"} |->
        LET i == CHOOSE j \in 1..4 : FileNames[j] = n
        IN  IF i <= o.k THEN File(Dumped(st)[n])
            ELSE IF i = o.k + 1 /\ o.torn THEN Torn
            ELSE d[n]]

\* TokenEngine._load: json.load raises on a file that is not complete JSON
LoadFails(d) == \E n \in DOMAIN d : d[n].st = "torn"
load(d) ==
    [balances |-> IF d.balances.st = "ok" THEN d.balances.data ELSE EmptyMap,
     escrows |-> IF d.escrows.st = "ok" THEN d.escrows.data ELSE EmptyMap,
     stakes |-> IF d.stakes.st = "ok" THEN d.stakes.data ELSE EmptyMap,
     ledger |-> IF d.ledger.st = "ok"
                THEN [i \in 1..Len(d.ledger.data) |-> from_dict(d.ledger.data[i])]
                ELSE <<>>]

(* ------------------------------- queries ------------------------------ *)

get_balance(entity) == RoundFloat(Get(balances, entity, 0))
get_stake(entity) == RoundFloat(Get(stakes, entity, 0))
is_eligible_validator_above(entity) == get_stake(entity) > validator_stake_required * Milli
is_eligible_validator(entity) == get_stake(entity) >= validator_stake_required * Milli

\* TokenEngine.get_transactions: entity None is NoEntity; txns[-limit:] is the
\* last limit records for a positive limit, every record for limit 0 (txns[-0:]
\* is txns[0:]) and all but the first -limit records for a negative one
NoEntity == "None"
Limits == 0 .. (MaxLedger + 1)
Reverse(q) == [i \in 1..Len(q) |-> q[Len(q) + 1 - i]]
Involves(t, entity) == t.from_entity = entity \/ t.to_entity = entity
Filtered(l, entity) ==
    IF entity = NoEntity THEN l ELSE SelectSeq(l, LAMBDA t : Involves(t, entity))
SliceFrom(q, limit) ==
    LET n == Len(q)
        first == IF limit > 0 THEN (IF limit >= n THEN 0 ELSE n - limit)
                 ELSE (IF -limit >= n THEN n ELSE -limit)
    IN  SubSeq(q, first + 1, n)
get_transactions(entity, limit) == Reverse(SliceFrom(Filtered(ledger, entity), limit))

\* TokenEngine.verify_chain on a ledger l
VerifyChainIgnoringFlag(l) ==
    \A i \in 2..Len(l) : l[i].prev_hash = compute_hash(l[i - 1])
VerifyChain(l) ==
    IF ~hash_chain_enabled \/ Len(l) = 0 THEN TRUE
    ELSE \A i \in 2..Len(l) : l[i].prev_hash = compute_hash(l[i - 1])
verify_chain == VerifyChain(ledger)

(* --------------------------- the operations --------------------------- *)

Result(op, err, ret) == [op |-> op, err |-> err, ret |-> ret]

\* self._balances once get_balance(entity) has run: the query reads with
\* dict.get and creates no entry
QueriedBalancesSetdefault(entity) == Put(balances, entity, Get(balances, entity, 0))
QueriedBalances(entity) == balances

\* "if available < amount: raise InsufficientBalance"
InsufficientAnyFunds(entity, amount) == get_balance(entity) <= 0
InsufficientOrEqual(entity, amount) == get_balance(entity) <= amount.v
Insufficient(entity, amount) == get_balance(entity) < amount.v

\* self._balances[entity] = self._round(self._balances[entity] - amount)
DebitNothing(b, entity, amount) == b
DebitAll(b, entity, amount) == Put(b, entity, 0)
DebitTwice(b, entity, amount) == Put(b, entity, RoundFloat(b[entity] - 2 * amount.v))
Debit(b, entity, amount) == Put(b, entity, RoundFloat(b[entity] - amount.v))

\* self._balances.setdefault(entity, 0.0), then
\* self._balances[entity] = self._round(self._balances[entity] + amount)
CreditNothing(b, entity, amount) == Put(b, entity, Get(b, entity, 0))
CreditDouble(b, entity, amount) ==
    Put(b, entity, RoundFloat(Get(b, entity, 0) + 2 * amount.v))
Credit(b, entity, amount) == Put(b, entity, RoundFloat(Get(b, entity, 0) + amount.v))

\* self._stakes.setdefault(entity, 0.0), then the rounded sum
IncreaseStakeReplace(entity, amount) == Put(stakes, entity, RoundFloat(amount.v))
IncreaseStake(entity, amount) ==
    Put(stakes, entity, RoundFloat(Get(stakes, entity, 0) + amount.v))

\* self._stakes[entity] = self._round(self._stakes[entity] - amount), then
\* "Clean up zero stakes": del self._stakes[entity] when it is <= 0
DecreaseStakeAll(entity, amount) == Del(stakes, entity)
DecreaseStakeNoCleanUp(entity, amount) ==
    Put(stakes, entity, RoundFloat(stakes[entity] - amount.v))
DecreaseStake(entity, amount) ==
    LET s == RoundFloat(stakes[entity] - amount.v)
    IN  IF s <= 0 THEN Del(stakes, entity) ELSE Put(stakes, entity, s)

\* record = self._escrows.pop(task_id): the table once the hold is taken out
PopEscrowKeep(task_id) == escrows
PopEscrow(task_id) == Del(escrows, task_id)

\* the balances release_escrow leaves: it credits nobody
ReleasedBalancesCredited(record) == Credit(balances, record.from, record.amount)
ReleasedBalances(record) == balances

\* prev_hash of _create_transaction on the ledger l
PrevHashOfFirst(l) ==
    IF hash_chain_enabled /\ Len(l) > 0 THEN compute_hash(l[1]) ELSE NoHash
PrevHash(l) ==
    IF hash_chain_enabled /\ Len(l) > 0 THEN compute_hash(l[Len(l)]) ELSE NoHash

\* TokenEngine._create_transaction
create_transaction_swapped(type, from_entity, to_entity, amount, memo, task_id, ts, rand) ==
    [id |-> generate_id(type, ts, rand),
     type |-> type,
     from_entity |-> to_entity,
     to_entity |-> from_entity,
     amount |-> amount,
     memo |-> memo,
     timestamp |-> ts,
     task_id |-> task_id,
     prev_hash |-> PrevHash(ledger)]
create_transaction(type, from_entity, to_entity, amount, memo, task_id, ts, rand) ==
    [id |-> generate_id(type, ts, rand),
     type |-> type,
     from_entity |-> from_entity,
     to_entity |-> to_entity,
     amount |-> amount,
     memo |-> memo,
     timestamp |-> ts,
     task_id |-> task_id,
     prev_hash |-> PrevHash(ledger)]

\* self._ledger.append(txn)
InsertFirst(l, txn) == <<txn>> \o l
AppendLedger(l, txn) == Append(l, txn)

\* an operation that raises after its checks left the balances as b
FailQuietly(op, err, b) ==
    /\ last' = Result(op, "none", <<>>)
    /\ balances' = b
    /\ UNCHANGED <<escrows, stakes, ledger, disk, alive, clock, tampered, snap, faults, decimals, hash_chain_enabled, cap, handle,
                   threads>>
Fail(op, err, b) ==
    /\ last' = Result(op, err, <<>>)
    /\ balances' = b
    /\ UNCHANGED <<escrows, stakes, ledger, disk, alive, clock, tampered, snap, faults, decimals, hash_chain_enabled, cap, handle,
                   threads>>

\* The tail every operation shares once its checks have passed and its stores b, e, s
\* are computed: _create_transaction, self._ledger.append(txn), self._save(), return.
Commit(op, b, e, s, txn, ret, o) ==
    LET l == AppendLedger(ledger, txn)
        after == State(b, e, s, l)
    IN  /\ faults' = IF o = OkSave THEN faults ELSE faults + 1
        /\ threads' = threads
        /\ UNCHANGED <<decimals, hash_chain_enabled, cap, handle>>
        /\ disk' = save(disk, after, o)
        /\ tampered' = tampered
        /\ IF o.crash
           THEN /\ alive' = FALSE
                /\ balances' = EmptyMap /\ escrows' = EmptyMap
                /\ stakes' = EmptyMap /\ ledger' = <<>>
                /\ snap' = <<Mem, after>>
                /\ last' = Result(op, "crash", <<>>)
           ELSE /\ alive' = alive
                /\ balances' = b /\ escrows' = e /\ stakes' = s /\ ledger' = l
                /\ snap' = snap
                /\ last' = Result(op, IF o.k = 4 THEN "none" ELSE "OSError", ret)

\* the reading of the clock and the random suffix of _generate_id
Stamp(ts, rand, S) ==
    /\ Len(ledger) < cap
    /\ <<ts, rand>> \in S
    /\ ts \in {clock, clock + 1}
    /\ clock' = ts

Mint(entity, a, memo, o, S) ==
    /\ alive
    /\ LET amount == round_(a) IN
       IF amount.v <= 0 THEN Fail("mint", "InvalidAmount", balances)
       ELSE \E ts \in Seconds, rand \in Rands :
            /\ Stamp(ts, rand, S)
            /\ Commit("mint", Credit(balances, entity, amount), escrows, stakes,
                      create_transaction("mint", "", entity, amount, memo, NoTask, ts, rand),
                      <<>>, o)

Transfer(from_entity, to_entity, a, memo, o, S) ==
    /\ alive
    /\ LET amount == round_(a)
           b == QueriedBalances(from_entity)
       IN
       IF amount.v <= 0 THEN Fail("transfer", "InvalidAmount", balances)
       ELSE IF Insufficient(from_entity, amount)
       THEN Fail("transfer", "InsufficientBalance", b)
       ELSE \E ts \in Seconds, rand \in Rands :
            /\ Stamp(ts, rand, S)
            /\ Commit("transfer",
                      Credit(Debit(b, from_entity, amount), to_entity, amount),
                      escrows, stakes,
                      create_transaction("transfer", from_entity, to_entity, amount,
                                         memo, NoTask, ts, rand),
                      <<>>, o)

TaskMemo(task_id) == "task:" \o task_id

Escrow(from_entity, a, task_id, o, S) ==
    /\ alive
    /\ LET amount == round_(a)
           b == QueriedBalances(from_entity)
       IN
       IF amount.v <= 0 THEN Fail("escrow", "InvalidAmount", balances)
       ELSE IF Insufficient(from_entity, amount)
       THEN Fail("escrow", "InsufficientBalance", b)
       ELSE \E ts \in Seconds, rand \in Rands :
            /\ Stamp(ts, rand, S)
            /\ Commit("escrow",
                      Debit(b, from_entity, amount),
                      Put(escrows, task_id, [from |-> from_entity, amount |-> amount]),
                      stakes,
                      create_transaction("escrow", from_entity, "_escrow", amount,
                                         TaskMemo(task_id), task_id, ts, rand),
                      <<>>, o)

ReleaseEscrow(task_id, o, S) ==
    /\ alive
    /\ IF task_id \notin DOMAIN escrows
       THEN Fail("release_escrow", "EscrowNotFound", balances)
       ELSE \E ts \in Seconds, rand \in Rands :
            /\ Stamp(ts, rand, S)
            /\ LET record == escrows[task_id]
                   amount == record.amount
               IN  Commit("release_escrow", ReleasedBalances(record), PopEscrow(task_id), stakes,
                          create_transaction("release", "_escrow", "", amount,
                                             TaskMemo(task_id), task_id, ts, rand),
                          <<amount>>, o)

RefundEscrow(task_id, o, S) ==
    /\ alive
    /\ IF task_id \notin DOMAIN escrows
       THEN Fail("refund_escrow", "EscrowNotFound", balances)
       ELSE \E ts \in Seconds, rand \in Rands :
            /\ Stamp(ts, rand, S)
            /\ LET record == escrows[task_id]
                   funder == record.from
                   amount == record.amount
               IN  Commit("refund_escrow", Credit(balances, funder, amount),
                          PopEscrow(task_id), stakes,
                          create_transaction("refund", "_escrow", funder, amount,
                                             TaskMemo(task_id), task_id, ts, rand),
                          <<>>, o)

Stake(entity, a, o, S) ==
    /\ alive
    /\ LET amount == round_(a)
           b == QueriedBalances(entity)
       IN
       IF amount.v <= 0 THEN Fail("stake", "InvalidAmount", balances)
       ELSE IF Insufficient(entity, amount)
       THEN Fail("stake", "InsufficientBalance", b)
       ELSE \E ts \in Seconds, rand \in Rands :
            /\ Stamp(ts, rand, S)
            /\ Commit("stake", Debit(b, entity, amount), escrows,
                      IncreaseStake(entity, amount),
                      create_transaction("stake", entity, "_stake", amount,
                                         "validator stake", NoTask, ts, rand),
                      <<>>, o)

\* the checks of unstake, in the order the code makes them: the exception raised
UnstakeErrorInsufficientFirst(entity, a) ==
    IF a # NoneAmt /\ round_(a).v > Get(stakes, entity, 0) THEN "InsufficientStake"
    ELSE IF entity \notin DOMAIN stakes \/ stakes[entity] <= 0 THEN "StakeNotFound"
    ELSE IF a # NoneAmt /\ round_(a).v <= 0 THEN "InvalidAmount"
    ELSE "none"
UnstakeErrorAmountFirst(entity, a) ==
    IF a # NoneAmt /\ round_(a).v <= 0 THEN "InvalidAmount"
    ELSE IF entity \notin DOMAIN stakes \/ stakes[entity] <= 0 THEN "StakeNotFound"
    ELSE IF a # NoneAmt /\ round_(a).v > stakes[entity] THEN "InsufficientStake"
    ELSE "none"
UnstakeError(entity, a) ==
    IF entity \notin DOMAIN stakes \/ stakes[entity] <= 0 THEN "StakeNotFound"
    ELSE IF a # NoneAmt /\ round_(a).v <= 0 THEN "InvalidAmount"
    ELSE IF a # NoneAmt /\ round_(a).v > stakes[entity] THEN "InsufficientStake"
    ELSE "none"

Unstake(entity, a, o, S) ==
    /\ alive
    /\ IF UnstakeError(entity, a) # "none"
       THEN Fail("unstake", UnstakeError(entity, a), balances)
       ELSE LET current_stake == stakes[entity]
                amount == IF a = NoneAmt THEN Amt(current_stake, FALSE) ELSE round_(a)
            IN
            \E ts \in Seconds, rand \in Rands :
                 /\ Stamp(ts, rand, S)
                 /\ Commit("unstake", Credit(balances, entity, amount), escrows,
                           DecreaseStake(entity, amount),
                           create_transaction("unstake", "_stake", entity, amount,
                                              "validator unstake", NoTask, ts, rand),
                           <<>>, o)

\* slash_amount of slash(): round(stake * slash_percent), round(0.01) when that is
\* <= 0.  The product is counted in hundredths of a thousandth and rounded to the
\* nearest unit (a stake that is a whole number of units never gives a tie).
SlashAmountWithoutMinimum(staked) ==
    LET product == staked * slash_percent
        u == 100 * Unit
    IN  ((product + u \div 2) \div u) * Unit
SlashAmount(staked) ==
    LET product == staked * slash_percent
        u == 100 * Unit
        raw == ((product + u \div 2) \div u) * Unit
    IN  IF raw <= 0 THEN RoundFloat(min_slash) ELSE raw

SlashMemo(reason) == IF reason # "" THEN "slash: " \o reason ELSE "validator slash"

Slash(entity, reason, task_id, o, S) ==
    /\ alive
    /\ IF entity \notin DOMAIN stakes \/ stakes[entity] <= 0
       THEN Fail("slash", "StakeNotFound", balances)
       ELSE \E ts \in Seconds, rand \in Rands :
            /\ Stamp(ts, rand, S)
            /\ LET slash_amount == Amt(SlashAmount(stakes[entity]), FALSE)
               IN  Commit("slash", Credit(balances, treasury_name, slash_amount), escrows,
                          DecreaseStake(entity, slash_amount),
                          create_transaction("slash", entity, treasury_name, slash_amount,
                                             SlashMemo(reason), task_id, ts, rand),
                          <<>>, o)

(* ----------------- two transfer calls on one engine ------------------- *)

\* TokenEngine has no lock: two threads that call transfer on the same engine run
\* the statements of transfer() in any interleaving.  A thread stands before one
\* statement: the checks, the debit, the credit, _create_transaction, the append,
\* _save; each statement is taken as one step.
Threads == {1, 2}
NoHandle == [kind |-> "none"]
NoTxn == [type |-> "none"]
NoCall == [from |-> "", to |-> "", a |-> NoneAmt]
NoThreads ==
    [phase |-> "idle", start |-> EmptyState,
     th |-> [i \in Threads |-> [pc |-> "idle", call |-> NoCall, txn |-> NoTxn,
                                err |-> "none"]]]

ConcAmounts == {Amt(10, FALSE)}
ConcCalls == [from : Entities, to : Entities, a : ConcAmounts]

At(i, pc) == threads.phase = "running" /\ threads.th[i].pc = pc
Goto(i, pc) == threads' = [threads EXCEPT !.th[i].pc = pc]
Joined == threads.phase = "running" /\ \A i \in Threads : threads.th[i].pc = "done"

\* both threads enter transfer()
Begin(c1, c2) ==
    /\ alive /\ threads.phase = "idle"
    /\ Len(ledger) + 2 <= cap
    /\ threads' = [phase |-> "running", start |-> Mem,
                   th |-> [i \in Threads |->
                             [pc |-> "check", call |-> IF i = 1 THEN c1 ELSE c2,
                              txn |-> NoTxn, err |-> "none"]]]
    /\ UNCHANGED <<balances, escrows, stakes, ledger, disk, alive, clock, last,
                   tampered, snap, faults, decimals, hash_chain_enabled, cap, handle>>

\* amount = self._round(amount); the InvalidAmount and InsufficientBalance checks
TCheck(i) ==
    /\ At(i, "check")
    /\ LET c == threads.th[i].call
           amount == round_(c.a)
           err == IF amount.v <= 0 THEN "InvalidAmount"
                  ELSE IF Insufficient(c.from, amount) THEN "InsufficientBalance"
                  ELSE "none"
       IN  /\ threads' = [threads EXCEPT !.th[i].pc = IF err = "none" THEN "debit" ELSE "done",
                                         !.th[i].err = err]
           /\ last' = IF err = "none" THEN last ELSE Result("transfer", err, <<>>)
    /\ UNCHANGED <<balances, escrows, stakes, ledger, disk, alive, clock, tampered,
                   snap, faults, decimals, hash_chain_enabled, cap, handle>>

\* self._balances[from_entity] = self._round(self._balances[from_entity] - amount)
TDebit(i) ==
    /\ At(i, "debit")
    /\ LET c == threads.th[i].call
       IN  balances' = Debit(balances, c.from, round_(c.a))
    /\ Goto(i, "credit")
    /\ UNCHANGED <<escrows, stakes, ledger, disk, alive, clock, last, tampered, snap,
                   faults, decimals, hash_chain_enabled, cap, handle>>

\* setdefault(to_entity, 0.0) and the credit
TCredit(i) ==
    /\ At(i, "credit")
    /\ LET c == threads.th[i].call
       IN  balances' = Credit(balances, c.to, round_(c.a))
    /\ Goto(i, "create")
    /\ UNCHANGED <<escrows, stakes, ledger, disk, alive, clock, last, tampered, snap,
                   faults, decimals, hash_chain_enabled, cap, handle>>

\* txn = self._create_transaction(...): prev_hash is read from the ledger now
TCreate(i) ==
    /\ At(i, "create")
    /\ \E ts \in Seconds, rand \in Rands :
          /\ Stamp(ts, rand, SameStamp)
          /\ LET c == threads.th[i].call
             IN  threads' = [threads EXCEPT
                    !.th[i].pc = "append",
                    !.th[i].txn = create_transaction("transfer", c.from, c.to, round_(c.a),
                                                     "", NoTask, ts, rand)]
    /\ UNCHANGED <<balances, escrows, stakes, ledger, disk, alive, last, tampered, snap,
                   faults, decimals, hash_chain_enabled, cap, handle>>

\* self._ledger.append(txn)
TAppend(i) ==
    /\ At(i, "append")
    /\ ledger' = AppendLedger(ledger, threads.th[i].txn)
    /\ Goto(i, "save")
    /\ UNCHANGED <<balances, escrows, stakes, disk, alive, clock, last, tampered, snap,
                   faults, decimals, hash_chain_enabled, cap, handle>>

\* self._save(); return txn
TSave(i) ==
    /\ At(i, "save")
    /\ disk' = save(disk, Mem, OkSave)
    /\ Goto(i, "done")
    /\ last' = Result("transfer", "none", <<>>)
    /\ UNCHANGED <<balances, escrows, stakes, ledger, alive, clock, tampered, snap,
                   faults, decimals, hash_chain_enabled, cap, handle>>

(* ---------------------- what a query hands out ------------------------ *)

\* what an edit of a stored record puts in a field
TamperFields == {"amount", "to_entity", "memo"}
\* the nine fields of a Transaction
RecordFields == {"id", "type", "from_entity", "to_entity", "amount", "memo",
                 "timestamp", "task_id", "prev_hash"}
TamperValue(f) ==
    CASE f = "amount" -> Amt(9999 * Milli, FALSE)
      [] f = "to_entity" -> "mallory"
      [] f = "memo" -> "edited"
      [] f = "id" -> <<"forged", 0, "zzzz">>
      [] f = "type" -> "fee"
      [] f = "from_entity" -> "mallory"
      [] f = "timestamp" -> 99
      [] f = "task_id" -> "t9"
      [] f = "prev_hash" -> <<"abc123">>

\* get_all_balances and get_all_stakes build a new dict of rounded values.
\* get_transactions builds a new list, whose elements are the Transaction objects
\* of self._ledger themselves: refs are their positions in the ledger.
Held(kind, val, refs) == [kind |-> kind, val |-> val, refs |-> refs]

\* the positions of the records get_transactions(entity, limit) returns
Positions(entity, limit) ==
    LET all == [i \in 1..Len(ledger) |-> i]
        hit(i) == entity = NoEntity \/ Involves(ledger[i], entity)
    IN  Reverse(SliceFrom(SelectSeq(all, hit), limit))

Query(op, h) ==
    /\ alive
    /\ handle' = h
    /\ last' = Result(op, "none", <<>>)
    /\ UNCHANGED <<balances, escrows, stakes, ledger, disk, alive, clock, tampered, snap,
                   faults, threads, decimals, hash_chain_enabled, cap>>

GetAllBalances ==
    Query("get_all_balances",
          Held("balances", [k \in DOMAIN balances |-> RoundFloat(balances[k])], <<>>))

GetAllStakes ==
    Query("get_all_stakes",
          Held("stakes", [k \in DOMAIN stakes |-> RoundFloat(stakes[k])], <<>>))

GetTransactions(entity, limit) ==
    Query("get_transactions", Held("transactions", EmptyMap, Positions(entity, limit)))

\* the caller assigns to an entry of the dict it was handed
CallerSetsEntry(entity, v) ==
    /\ last.op # "caller_write"
    /\ handle.kind \in {"balances", "stakes"}
    /\ Get(handle.val, entity, -1) # v
    /\ handle' = [handle EXCEPT !.val = Put(handle.val, entity, v)]
    /\ last' = Result("caller_write", "none", <<>>)
    /\ UNCHANGED <<balances, escrows, stakes, ledger, disk, alive, clock, tampered, snap,
                   faults, threads, decimals, hash_chain_enabled, cap>>

\* the caller removes the first element of the list it was handed
CallerPops ==
    /\ last.op # "caller_write"
    /\ handle.kind = "transactions" /\ handle.refs # <<>>
    /\ handle' = [handle EXCEPT !.refs = Tail(handle.refs)]
    /\ last' = Result("caller_write", "none", <<>>)
    /\ UNCHANGED <<balances, escrows, stakes, ledger, disk, alive, clock, tampered, snap,
                   faults, threads, decimals, hash_chain_enabled, cap>>

\* the caller assigns to a field of the k-th record of the list it was handed:
\* that object is the one the ledger holds
CallerSetsField(k, f) ==
    /\ last.op # "caller_write"
    /\ handle.kind = "transactions" /\ k \in 1..Len(handle.refs)
    /\ ledger[handle.refs[k]][f] # TamperValue(f)
    /\ ledger' = [ledger EXCEPT ![handle.refs[k]] = [@ EXCEPT ![f] = TamperValue(f)]]
    /\ last' = Result("caller_write", "none", <<>>)
    /\ UNCHANGED <<balances, escrows, stakes, disk, alive, clock, tampered, snap,
                   faults, threads, decimals, hash_chain_enabled, cap, handle>>

\* TokenEngine.__init__ on the same storage_dir: a fresh instance replaces the old
\* one; _load raises when a file does not parse and then no instance exists
Reopen ==
    /\ IF LoadFails(disk)
       THEN /\ alive' = FALSE
            /\ balances' = EmptyMap /\ escrows' = EmptyMap
            /\ stakes' = EmptyMap /\ ledger' = <<>>
            /\ last' = Result("init", "JSONDecodeError", <<>>)
       ELSE /\ alive' = TRUE
            /\ balances' = load(disk).balances
            /\ escrows' = load(disk).escrows
            /\ stakes' = load(disk).stakes
            /\ ledger' = load(disk).ledger
            /\ last' = Result("init", "none", <<>>)
    /\ UNCHANGED <<disk, clock, tampered, snap, faults, decimals, hash_chain_enabled, cap, handle, threads>>

\* engine._ledger[i].<field> = <value>, once, without recomputing any prev_hash
Tamper(i, f) ==
    /\ alive /\ ~tampered
    /\ i \in 1..Len(ledger)
    /\ verify_chain
    /\ ledger' = [ledger EXCEPT ![i] = [@ EXCEPT ![f] = TamperValue(f)]]
    /\ tampered' = TRUE
    /\ last' = Result("tamper", "none", <<>>)
    /\ UNCHANGED <<balances, escrows, stakes, disk, alive, clock, snap, faults, decimals, hash_chain_enabled, cap, handle, threads>>

\* a fresh engine on an empty storage_dir whose configuration sets d decimals and
\* ledger_integrity h
Configured(d, h, c) ==
    /\ balances = EmptyMap
    /\ escrows = EmptyMap
    /\ stakes = EmptyMap
    /\ ledger = <<>>
    /\ disk = [n \in {"balances", "escrows", "stakes", "ledger"} |-> Absent]
    /\ alive = TRUE
    /\ clock = 0
    /\ last = Result("init", "none", <<>>)
    /\ tampered = FALSE
    /\ snap = <<EmptyState, EmptyState>>
    /\ faults = 0
    /\ threads = NoThreads
    /\ decimals = d
    /\ hash_chain_enabled = h
    /\ cap = c
    /\ handle = NoHandle

\* the same under the default ledger_integrity
Start(d, c) == Configured(d, DefaultHashChain, c)

Init == Start(DefaultDecimals, MaxLedger)

Reasons == {""}
SlashTasks == {NoTask, "t1"}

\* one call of a mutating operation, its arguments drawn from the entities E, the
\* amounts A and the task ids T, stamped from S, whose _save ends as o
Op(o, E, A, T, S) ==
    \/ \E entity \in E, a \in A, memo \in Memos : Mint(entity, a, memo, o, S)
    \/ \E f \in E, t \in E, a \in A, memo \in Memos : Transfer(f, t, a, memo, o, S)
    \/ \E f \in E, a \in A, task_id \in T : Escrow(f, a, task_id, o, S)
    \/ \E task_id \in T : ReleaseEscrow(task_id, o, S)
    \/ \E task_id \in T : RefundEscrow(task_id, o, S)
    \/ \E entity \in E, a \in A : Stake(entity, a, o, S)
    \/ \E entity \in E, a \in A \cup {NoneAmt} : Unstake(entity, a, o, S)
    \/ \E entity \in E, reason \in Reasons, task_id \in SlashTasks :
          Slash(entity, reason, task_id, o, S)

\* one engine instance on fresh storage, no I/O failure
Next == Op(OkSave, Entities, Amounts, Tasks, SameStamp)
Spec == Init /\ [][Next]_vars

\* the same, and the engine may be re-opened on its storage at any time
NextReload == Op(OkSave, Entities, Amounts, Tasks, SameStamp) \/ Reopen
SpecReload == Init /\ [][NextReload]_vars

\* one engine instance, and one stored record is edited at the end
NextTamper ==
    \/ ~tampered /\ Op(OkSave, Entities, Amounts, Tasks, SameRand)
    \/ \E i \in 1..MaxLedger, f \in TamperFields : Tamper(i, f)
SpecTamper == Init /\ [][NextTamper]_vars

\* _save may fail, or the process may stop, at any point of it
FaultEntities == {"alice"}
FaultAmounts == {Amt(10, FALSE), Amt(Milli, TRUE)}
FaultTasks == {"t1"}
NextFault ==
    \/ Op(OkSave, FaultEntities, FaultAmounts, FaultTasks, SameStamp)
    \/ /\ faults < MaxFaults
       /\ \E o \in SaveOutcomes \ {OkSave} :
             Op(o, FaultEntities, FaultAmounts, FaultTasks, SameStamp)
    \/ Reopen
SpecFault == Init /\ [][NextFault]_vars

\* one engine instance that may append one record more, with one entity and one task id
InitLong == Start(DefaultDecimals, MaxLedger + 1)
NextLong == Op(OkSave, FaultEntities, FaultAmounts, FaultTasks, SameStamp)
SpecLong == InitLong /\ [][NextLong]_vars

\* one engine instance whose caller queries it and then writes to what it was
\* handed
QueryLimits == {1, MaxLedger}
NextQuery ==
    \/ last.op # "caller_write"
          /\ Op(OkSave, FaultEntities, FaultAmounts, FaultTasks, SameStamp)
    \/ last.op # "caller_write" /\ GetAllBalances
    \/ last.op # "caller_write" /\ GetAllStakes
    \/ \E entity \in FaultEntities \cup {NoEntity}, limit \in QueryLimits :
          last.op # "caller_write" /\ GetTransactions(entity, limit)
    \/ \E entity \in FaultEntities : CallerSetsEntry(entity, 0)
    \/ CallerPops
    \/ \E k \in 1..MaxLedger, f \in TamperFields : CallerSetsField(k, f)
SpecQuery == Init /\ [][NextQuery]_vars

\* one engine instance under each configured precision
Precisions == {1, 2, 3}
ConfigEntities == {"alice"}
\* the floats 0.001, 0.1 and 50.0
ConfigAmounts == {Amt(1, FALSE), Amt(100, FALSE), Amt(validator_stake_required * Milli, FALSE)}
InitConfig == \E d \in Precisions : Start(d, MaxLedger)
NextConfig == Op(OkSave, ConfigEntities, ConfigAmounts, FaultTasks, SameStamp)
SpecConfig == InitConfig /\ [][NextConfig]_vars

\* one engine instance under each setting of ledger_integrity, any field of one of
\* whose stored records is edited once
InitChain == \E h \in BOOLEAN : Configured(DefaultDecimals, h, MaxLedger)
NextChain ==
    \/ Op(OkSave, FaultEntities, FaultAmounts, FaultTasks, SameStamp)
    \/ \E i \in 1..MaxLedger, f \in RecordFields : Tamper(i, f)
SpecChain == InitChain /\ [][NextChain]_vars

\* one engine instance whose calls may fall in the same second and whose
\* _generate_id may draw the same four characters again
NextIds == Op(OkSave, FaultEntities, FaultAmounts, FaultTasks, Stamps)
SpecIds == Init /\ [][NextIds]_vars

\* one engine instance that is passed amounts halfway between two hundredths: the
\* floats 0.005, 0.015 and 0.025, and 0.014
RoundAmounts == {Amt(5, FALSE), Amt(15, FALSE), Amt(25, FALSE), Amt(14, FALSE)}
NextRound == Op(OkSave, FaultEntities, RoundAmounts, FaultTasks, SameStamp)
SpecRound == Init /\ [][NextRound]_vars

\* one engine instance on which tokens are minted and staked, and that is then
\* only called to slash: the caller keeps slashing every entity (weak fairness of
\* its slash calls), and no stake call follows the first slash
DepleteAmounts == {Amt(10, FALSE), Amt(50, FALSE)}
Slashed == \E i \in 1..Len(ledger) : ledger[i].type = "slash"
SlashCall(entity) ==
    \E reason \in Reasons, task_id \in SlashTasks :
       Slash(entity, reason, task_id, OkSave, SameStamp)
InitDeplete == Start(DefaultDecimals, MaxLedger + MaxSlashes)
NextDeplete ==
    \/ /\ ~Slashed /\ Len(ledger) < MaxLedger
       /\ \E entity \in Entities, a \in DepleteAmounts, memo \in Memos :
             Mint(entity, a, memo, OkSave, SameStamp)
    \/ /\ ~Slashed /\ Len(ledger) < MaxLedger
       /\ \E entity \in Entities, a \in DepleteAmounts :
             Stake(entity, a, OkSave, SameStamp)
    \/ \E entity \in Entities : SlashCall(entity)
SpecDeplete ==
    /\ InitDeplete /\ [][NextDeplete]_vars
    /\ \A entity \in Entities : WF_vars(SlashCall(entity))

\* one engine instance that two threads call transfer on at the same time, once
NextConc ==
    \/ threads.phase = "idle" /\ Op(OkSave, Entities, Amounts, Tasks, SameStamp)
    \/ \E c1 \in ConcCalls, c2 \in ConcCalls : Begin(c1, c2)
    \/ \E i \in Threads : TCheck(i)
    \/ \E i \in Threads : TDebit(i)
    \/ \E i \in Threads : TCredit(i)
    \/ \E i \in Threads : TCreate(i)
    \/ \E i \in Threads : TAppend(i)
    \/ \E i \in Threads : TSave(i)
SpecConc == Init /\ [][NextConc]_vars

(* ------------------------- ledger arithmetic -------------------------- *)

\* the sum of the amounts of the records of l whose type is in types
RECURSIVE SumAmounts(_, _)
SumAmounts(l, types) ==
    IF l = <<>> THEN 0
    ELSE (IF Head(l).type \in types THEN Head(l).amount.v ELSE 0)
         + SumAmounts(Tail(l), types)

\* the sum of the holds that an escrow record of l replaced: walking l with h the
\* holds active so far, an escrow record on a task id that has a hold drops it
RECURSIVE Replaced(_, _)
Replaced(l, h) ==
    IF l = <<>> THEN 0
    ELSE LET t == Head(l) IN
         IF t.type = "escrow"
         THEN Get(h, t.task_id, 0) + Replaced(Tail(l), Put(h, t.task_id, t.amount.v))
         ELSE IF t.type \in {"release", "refund"}
         THEN Replaced(Tail(l), Del(h, t.task_id))
         ELSE Replaced(Tail(l), h)

\* the last record of l that opens or resolves the escrow of task id t
EscrowTypes == {"escrow", "release", "refund"}
NoRecord == [type |-> "none"]
LastEscrowRecord(l, t) ==
    LET I == {i \in 1..Len(l) : l[i].task_id = t /\ l[i].type \in EscrowTypes}
    IN  IF I = {} THEN NoRecord
        ELSE l[CHOOSE i \in I : \A j \in I : j <= i]

\* the sum of the amounts of the records of l of a type in types whose source,
\* whose destination, is the entity e
SumFrom(l, types, e) == SumAmounts(SelectSeq(l, LAMBDA t : t.from_entity = e), types)
SumTo(l, types, e) == SumAmounts(SelectSeq(l, LAMBDA t : t.to_entity = e), types)

SumHolds == SumMap([t \in DOMAIN escrows |-> escrows[t].amount.v])
Total == SumMap(balances) + SumHolds + SumMap(stakes)
Minted == SumAmounts(ledger, {"mint"})
Released == SumAmounts(ledger, {"release"})

MutatingOps == {"mint", "transfer", "escrow", "release_escrow", "refund_escrow",
                "stake", "unstake", "slash"}
\* the code's InsufficientBalance is the InsufficientFunds of the specification
LocalErrors == {"InvalidAmount", "InsufficientBalance", "InsufficientStake",
                "DuplicateEscrow", "EscrowNotFound", "StakeNotFound"}

\* Python's == on two engine states: 1 == 1.0
StateEq(x, y) ==
    /\ x.balances = y.balances
    /\ x.stakes = y.stakes
    /\ x.escrows = y.escrows
    /\ LedgerEq(x.ledger, y.ledger)

\* what a fresh engine would load is what this engine holds
InSync == ~LoadFails(disk) /\ StateEq(load(disk), Mem)

(* ------------------------------- claims ------------------------------- *)

C2_NoNegative ==
    /\ \A e \in DOMAIN balances : balances[e] >= 0
    /\ \A e \in DOMAIN stakes : stakes[e] >= 0
    /\ \A e \in Entities : get_balance(e) >= 0 /\ get_stake(e) >= 0

C2_Witness ==
    /\ last.err = "InsufficientBalance"
    /\ \E e \in DOMAIN balances : balances[e] = 0

\* C3: an escrow call for a task id that has an active hold fails (with
\* DuplicateEscrow when the amount is valid and the funder has the funds): the
\* funder is not debited, the hold is unchanged and no record is appended.
C3_DuplicateEscrowRejected ==
    [][\A f \in Entities, a \in Amounts, t \in Tasks :
          (t \in DOMAIN escrows /\ Escrow(f, a, t, OkSave, SameStamp)) =>
             /\ last'.err # "none"
             /\ (round_(a).v > 0 /\ ~Insufficient(f, round_(a)))
                   => last'.err = "DuplicateEscrow"
             /\ balances' = balances
             /\ escrows' = escrows
             /\ ledger' = ledger]_vars

\* C4: a call that fails with one of the local-validation errors leaves the
\* balances (entries included), the escrow holds, the stakes, the ledger and the
\* four files exactly as they were.
C4_FailedOpNoEffect ==
    [][last'.err \in LocalErrors =>
          UNCHANGED <<balances, escrows, stakes, ledger, disk>>]_vars

C4_Witness == last.op = "unstake" /\ last.err = "InsufficientStake"

\* C5: a successful mutating operation leaves the ledger as the previous ledger
\* followed by exactly one new record; a failed one leaves the ledger as it was.
C5_AppendOnly ==
    [][last'.op \in MutatingOps =>
          IF last'.err = "none"
          THEN /\ Len(ledger') = Len(ledger) + 1
               /\ SubSeq(ledger', 1, Len(ledger)) = ledger
          ELSE ledger' = ledger]_vars

C5_Witness == last.op \in MutatingOps /\ last.err = "none" /\ Len(ledger) >= 2

\* C6: with chaining enabled the first record has an empty prev_hash, every later
\* record has the content hash of its predecessor as prev_hash, and verify_chain()
\* returns true.
C6_ChainIntegrity ==
    hash_chain_enabled =>
       /\ Len(ledger) > 0 => ledger[1].prev_hash = NoHash
       /\ \A i \in 2..Len(ledger) : ledger[i].prev_hash = compute_hash(ledger[i - 1])
       /\ verify_chain

C6_Witness == Len(ledger) >= 3 /\ verify_chain /\ last.err = "none"

\* C7: once the content of one stored record of a valid chain has been changed
\* without recomputing the chain, verify_chain() returns false.
C7_TamperDetected == tampered => ~verify_chain

\* C8: a fresh engine on the same storage has the balances, stakes, active escrows
\* and ledger records of the prior instance, and the same verify_chain() result.
C8_ReloadFidelity ==
    [][last'.op = "init" =>
          /\ balances' = balances
          /\ stakes' = stakes
          /\ escrows' = escrows
          /\ LedgerEq(ledger', ledger)
          /\ VerifyChain(ledger') = VerifyChain(ledger)]_vars

\* C9: re-opening the engine after the process stopped during a mutating
\* operation yields exactly the state before that operation or exactly the state
\* after it.
C9_CrashAtomic ==
    [][(last.err = "crash" /\ last'.op = "init") =>
          /\ last'.err = "none"
          /\ \/ StateEq(State(balances', escrows', stakes', ledger'), snap[1])
             \/ StateEq(State(balances', escrows', stakes', ledger'), snap[2])]_vars

\* C10: after a persist that failed, either the in-memory state is what the
\* storage holds (the mutation and the record were rolled back) or the engine
\* refuses every later operation.
C10_NoSilentDivergence ==
    [][(alive /\ ~InSync /\ last'.op \in MutatingOps) => last'.err # "none"]_vars

\* the state that transfer() called alone with the arguments c leaves from st
SerialTransfer(st, c) ==
    LET amount == round_(c.a)
        txn == [create_transaction("transfer", c.from, c.to, amount, "", NoTask,
                                   0, "a1b2")
                   EXCEPT !.prev_hash = PrevHash(st.ledger)]
    IN  IF amount.v <= 0 \/ RoundFloat(Get(st.balances, c.from, 0)) < amount.v
        THEN st
        ELSE State(Credit(Debit(st.balances, c.from, amount), c.to, amount),
                   st.escrows, st.stakes, AppendLedger(st.ledger, txn))

\* C11: once two transfer calls that ran at the same time on one engine have both
\* returned, the balances, holds, stakes and ledger are those that one of the two
\* serial orders of the calls leaves; no balance is negative and verify_chain()
\* is true.
C11_Serializable ==
    Joined =>
       LET c1 == threads.th[1].call
           c2 == threads.th[2].call
       IN  /\ \/ Mem = SerialTransfer(SerialTransfer(threads.start, c1), c2)
              \/ Mem = SerialTransfer(SerialTransfer(threads.start, c2), c1)
           /\ \A e \in DOMAIN balances : balances[e] >= 0
           /\ verify_chain

\* C12: the first record appended by an engine re-opened on existing storage has
\* the content hash of the last record it loaded as prev_hash, and verify_chain()
\* is true over the whole chain, old records followed by the new one.
C12_ChainAcrossRestart ==
    [][(last.op = "init" /\ last.err = "none" /\ Len(ledger) > 0
        /\ last'.op \in MutatingOps /\ last'.err = "none") =>
          /\ ledger'[Len(ledger')].prev_hash = compute_hash(ledger[Len(ledger)])
          /\ VerifyChain(ledger')]_vars

\* C13: release_escrow or refund_escrow of a task id whose last escrow record is
\* a release or a refund, or that has no escrow record at all, fails with
\* EscrowNotFound and changes nothing.
C13_SingleResolution ==
    [][\A t \in Tasks :
          (/\ LastEscrowRecord(ledger, t).type # "escrow"
           /\ \/ ReleaseEscrow(t, OkSave, SameStamp)
              \/ RefundEscrow(t, OkSave, SameStamp)) =>
             /\ last'.err = "EscrowNotFound"
             /\ UNCHANGED <<balances, escrows, stakes, ledger>>]_vars

C13_Witness ==
    /\ last.op = "refund_escrow" /\ last.err = "EscrowNotFound"
    /\ \E t \in Tasks : LastEscrowRecord(ledger, t).type = "release"
    /\ \A t \in Tasks : LastEscrowRecord(ledger, t).type # "escrow"

\* C14: a hold appears only by a successful escrow on a task id without one and
\* disappears only by a successful release_escrow or refund_escrow; a hold that
\* exists is never replaced; in the ledger every escrow record of a task id
\* follows no record or a release/refund of that id, and every release/refund
\* follows an escrow of that id.
C14_EscrowLifecycle ==
    [][\A t \in Tasks :
          /\ (t \notin DOMAIN escrows /\ t \in DOMAIN escrows')
                => last'.op = "escrow" /\ last'.err = "none"
          /\ (t \in DOMAIN escrows /\ t \notin DOMAIN escrows')
                => last'.op \in {"release_escrow", "refund_escrow"} /\ last'.err = "none"
          /\ (t \in DOMAIN escrows /\ t \in DOMAIN escrows')
                => escrows'[t] = escrows[t] /\ LastEscrowRecord(ledger', t) = LastEscrowRecord(ledger, t)
          /\ \A i \in 1..Len(ledger') :
                (ledger'[i].task_id = t /\ ledger'[i].type \in EscrowTypes) =>
                   LET before == LastEscrowRecord(SubSeq(ledger', 1, i - 1), t).type
                   IN  IF ledger'[i].type = "escrow"
                       THEN before \in {"none", "release", "refund"}
                       ELSE before = "escrow"]_vars

\* C15: release_escrow of a task id with an active hold removes that hold and
\* no other, returns the held amount, leaves every balance and every stake as it
\* was, and appends a record of type release from _escrow to the empty
\* destination with the held amount and the task id.
C15_ReleaseEffect ==
    [][\A t \in Tasks :
          (t \in DOMAIN escrows /\ ReleaseEscrow(t, OkSave, SameStamp)) =>
             LET txn == ledger'[Len(ledger')] IN
             /\ last'.err = "none"
             /\ last'.ret = <<escrows[t].amount>>
             /\ escrows' = [u \in DOMAIN escrows \ {t} |-> escrows[u]]
             /\ balances' = balances
             /\ stakes' = stakes
             /\ Len(ledger') = Len(ledger) + 1
             /\ txn.type = "release" /\ txn.from_entity = "_escrow"
             /\ txn.to_entity = "" /\ txn.amount = escrows[t].amount
             /\ txn.task_id = t]_vars

C15_Witness ==
    /\ last.op = "release_escrow" /\ last.err = "none"
    /\ last.ret = <<ledger[Len(ledger)].amount>>
    /\ escrows = EmptyMap
    /\ \E e \in DOMAIN balances : balances[e] > 0

\* C16: refund_escrow of a task id with an active hold removes that hold and no
\* other and increases the balance of the funder of that hold (the source of the
\* task id's last escrow record) by the held amount (the amount of that record);
\* no other balance and no stake changes.
C16_RefundEffect ==
    [][\A t \in Tasks :
          (t \in DOMAIN escrows /\ RefundEscrow(t, OkSave, SameStamp)) =>
             LET opened == LastEscrowRecord(ledger, t)
                 funder == opened.from_entity
             IN
             /\ last'.err = "none"
             /\ opened.type = "escrow"
             /\ escrows' = [u \in DOMAIN escrows \ {t} |-> escrows[u]]
             /\ balances'[funder] = Get(balances, funder, 0) + opened.amount.v
             /\ \A e \in (DOMAIN balances') \ {funder} :
                   e \in DOMAIN balances /\ balances'[e] = balances[e]
             /\ stakes' = stakes]_vars

C16_Witness ==
    /\ last.op = "refund_escrow" /\ last.err = "none"
    /\ escrows = EmptyMap
    /\ \E e \in DOMAIN balances : balances[e] = Milli

\* C17: a successful transfer of an amount (at the configured precision) lowers
\* the balance of the source by it and raises the balance of the destination by
\* it; source = destination leaves the balance as it was; every other balance,
\* the holds and the stakes are unchanged and the sum of the balances is the same.
C17_TransferEffect ==
    [][\A f \in Entities, t \in Entities, a \in Amounts, memo \in Memos :
          (Transfer(f, t, a, memo, OkSave, SameStamp) /\ last'.err = "none") =>
             LET amount == round_(a).v IN
             /\ balances'[f] = IF f = t THEN balances[f] ELSE balances[f] - amount
             /\ balances'[t] = IF f = t THEN balances[t]
                               ELSE Get(balances, t, 0) + amount
             /\ \A e \in (DOMAIN balances') \ {f, t} :
                   e \in DOMAIN balances /\ balances'[e] = balances[e]
             /\ escrows' = escrows
             /\ stakes' = stakes
             /\ SumMap(balances') = SumMap(balances)]_vars

C17_Witness ==
    /\ last.op = "transfer" /\ last.err = "none"
    /\ Len(ledger) = 3
    /\ ledger[2].type = "transfer" /\ ledger[2].from_entity # ledger[2].to_entity
    /\ ledger[3].type = "transfer" /\ ledger[3].from_entity = ledger[3].to_entity
    /\ ledger[3].amount.v < balances[ledger[3].to_entity]

\* what C18 says of one call that debits src by the amount a, d being where the
\* funds go when that is an entity
C18_Debits(src, a, dst) ==
    LET amount == round_(a).v
        held == Get(balances, src, 0)
    IN  amount > 0 =>
           /\ last'.err = "InsufficientBalance" <=> held < amount
           /\ held >= amount => last'.err = "none"
           /\ (held = amount /\ src # dst) => balances'[src] = 0

\* C18 as stated: transfer, escrow and stake with a positive amount fail with
\* InsufficientFunds exactly when the balance of the source (zero without an
\* entry) is below the amount; an amount equal to the balance succeeds and leaves
\* the balance at zero.
C18_InsufficientIff ==
    [][/\ \A f \in Entities, t \in Entities, a \in Amounts, memo \in Memos :
             Transfer(f, t, a, memo, OkSave, SameStamp) => C18_Debits(f, a, "")
       /\ \A f \in Entities, a \in Amounts, task_id \in Tasks :
             Escrow(f, a, task_id, OkSave, SameStamp) => C18_Debits(f, a, "")
       /\ \A f \in Entities, a \in Amounts :
             Stake(f, a, OkSave, SameStamp) => C18_Debits(f, a, "")]_vars

\* C18 as amended: the same, and the balance is left at zero unless the call is a
\* transfer whose destination is its source.
C18_InsufficientIffAmended ==
    [][/\ \A f \in Entities, t \in Entities, a \in Amounts, memo \in Memos :
             Transfer(f, t, a, memo, OkSave, SameStamp) => C18_Debits(f, a, t)
       /\ \A f \in Entities, a \in Amounts, task_id \in Tasks :
             Escrow(f, a, task_id, OkSave, SameStamp) => C18_Debits(f, a, "")
       /\ \A f \in Entities, a \in Amounts :
             Stake(f, a, OkSave, SameStamp) => C18_Debits(f, a, "")]_vars

C18_Witness ==
    /\ last.op = "stake" /\ last.err = "none"
    /\ \E e \in DOMAIN stakes : stakes[e] > 0 /\ e \in DOMAIN balances /\ balances[e] = 0

\* the amount a is <= 0 at the configured precision
C19_NotPositive(a) == RoundFloat(a.v) <= 0

\* C19 as stated: mint, transfer, escrow, stake and unstake with an amount fail
\* with InvalidAmount whenever the amount is <= 0 at the configured precision.
C19_InvalidAmount ==
    [][\A a \in Amounts : C19_NotPositive(a) =>
          /\ \A e \in Entities, memo \in Memos :
                Mint(e, a, memo, OkSave, SameStamp) => last'.err = "InvalidAmount"
          /\ \A f \in Entities, t \in Entities, memo \in Memos :
                Transfer(f, t, a, memo, OkSave, SameStamp) => last'.err = "InvalidAmount"
          /\ \A f \in Entities, task_id \in Tasks :
                Escrow(f, a, task_id, OkSave, SameStamp) => last'.err = "InvalidAmount"
          /\ \A e \in Entities :
                Stake(e, a, OkSave, SameStamp) => last'.err = "InvalidAmount"
          /\ \A e \in Entities :
                Unstake(e, a, OkSave, SameStamp) => last'.err = "InvalidAmount"]_vars

\* C19 as amended: mint, transfer, escrow and stake fail with InvalidAmount
\* whenever the amount is <= 0 at the configured precision; unstake with such an
\* amount fails with InvalidAmount when the entity has a positive stake and with
\* StakeNotFound when it has none.
C19_InvalidAmountAmended ==
    [][\A a \in Amounts : C19_NotPositive(a) =>
          /\ \A e \in Entities, memo \in Memos :
                Mint(e, a, memo, OkSave, SameStamp) => last'.err = "InvalidAmount"
          /\ \A f \in Entities, t \in Entities, memo \in Memos :
                Transfer(f, t, a, memo, OkSave, SameStamp) => last'.err = "InvalidAmount"
          /\ \A f \in Entities, task_id \in Tasks :
                Escrow(f, a, task_id, OkSave, SameStamp) => last'.err = "InvalidAmount"
          /\ \A e \in Entities :
                Stake(e, a, OkSave, SameStamp) => last'.err = "InvalidAmount"
          /\ \A e \in Entities :
                Unstake(e, a, OkSave, SameStamp) =>
                   last'.err = IF Get(stakes, e, 0) > 0 THEN "InvalidAmount"
                               ELSE "StakeNotFound"]_vars

C19_Witness ==
    /\ last.op = "unstake" /\ last.err = "InvalidAmount"
    /\ stakes # EmptyMap

\* C20: a successful stake of an amount (at the configured precision) lowers the
\* balance of the entity by it and raises its stake, zero before the first one,
\* by it, so that their sum is the same; every other balance and stake and the
\* holds are unchanged.
C20_StakeEffect ==
    [][\A e \in Entities, a \in Amounts :
          (Stake(e, a, OkSave, SameStamp) /\ last'.err = "none") =>
             LET amount == round_(a).v IN
             /\ balances'[e] = balances[e] - amount
             /\ stakes'[e] = Get(stakes, e, 0) + amount
             /\ balances'[e] + stakes'[e] = balances[e] + Get(stakes, e, 0)
             /\ \A x \in (DOMAIN balances') \ {e} :
                   x \in DOMAIN balances /\ balances'[x] = balances[x]
             /\ \A x \in (DOMAIN stakes') \ {e} :
                   x \in DOMAIN stakes /\ stakes'[x] = stakes[x]
             /\ DOMAIN balances' = DOMAIN balances
             /\ escrows' = escrows]_vars

C20_Witness ==
    /\ last.op = "stake" /\ last.err = "none"
    /\ Len(ledger) = 3 /\ ledger[2].type = "stake" /\ ledger[3].type = "stake"
    /\ ledger[2].from_entity = ledger[3].from_entity
    /\ stakes[ledger[3].from_entity] = ledger[2].amount.v + ledger[3].amount.v

\* C21: a successful unstake of an amount (at the configured precision) lowers
\* the stake of the entity by it and raises its balance by it; unstake without an
\* amount moves the whole stake and records that amount; the sum of balance and
\* stake of the entity is the same in both cases.
C21_UnstakeEffect ==
    [][\A e \in Entities, a \in Amounts \cup {NoneAmt} :
          (Unstake(e, a, OkSave, SameStamp) /\ last'.err = "none") =>
             LET amount == IF a = NoneAmt THEN stakes[e] ELSE round_(a).v
                 txn == ledger'[Len(ledger')]
             IN
             /\ amount > 0 /\ amount <= stakes[e]
             /\ Get(stakes', e, 0) = stakes[e] - amount
             /\ balances'[e] = Get(balances, e, 0) + amount
             /\ balances'[e] + Get(stakes', e, 0) = Get(balances, e, 0) + stakes[e]
             /\ txn.type = "unstake" /\ txn.to_entity = e /\ txn.amount.v = amount
             /\ a = NoneAmt => Get(stakes', e, 0) = 0]_vars

C21_Witness ==
    /\ last.op = "unstake" /\ last.err = "none"
    /\ Len(ledger) = 3 /\ ledger[2].type = "stake"
    /\ ledger[3].amount.v < ledger[2].amount.v
    /\ Get(stakes, ledger[3].to_entity, 0) = ledger[2].amount.v - ledger[3].amount.v

\* C23: in every reachable state every entry of the stake table is positive, and
\* the stake of an entity without an entry reads as zero.
C23_NoZeroStake ==
    /\ \A e \in DOMAIN stakes : stakes[e] > 0
    /\ \A e \in Entities : e \notin DOMAIN stakes => get_stake(e) = 0

C23_Witness ==
    /\ last.op = "unstake" /\ last.err = "none"
    /\ Len(ledger) = 3 /\ ledger[2].type = "stake"
    /\ ledger[3].amount.v = ledger[2].amount.v
    /\ ledger[3].to_entity \notin DOMAIN stakes

\* C24: unstake and slash of an entity without a positive stake fail with
\* StakeNotFound, and release_escrow and refund_escrow of a task id without an
\* active hold fail with EscrowNotFound, whatever the other arguments are.
C24_NotFound ==
    [][/\ \A e \in Entities : Get(stakes, e, 0) <= 0 =>
             /\ \A a \in Amounts \cup {NoneAmt} :
                   Unstake(e, a, OkSave, SameStamp) => last'.err = "StakeNotFound"
             /\ \A reason \in Reasons, task_id \in SlashTasks :
                   Slash(e, reason, task_id, OkSave, SameStamp)
                      => last'.err = "StakeNotFound"
       /\ \A t \in Tasks : t \notin DOMAIN escrows =>
             /\ ReleaseEscrow(t, OkSave, SameStamp) => last'.err = "EscrowNotFound"
             /\ RefundEscrow(t, OkSave, SameStamp) => last'.err = "EscrowNotFound"]_vars

C24_Witness ==
    /\ last.op = "slash" /\ last.err = "StakeNotFound"
    /\ Len(ledger) = 3 /\ ledger[3].type = "unstake"

\* C22: under every configured precision, slash of an entity with a positive
\* stake removes from the stake the configured fraction of it rounded to the
\* precision, or one minimum unit when that rounds to zero, and the balance of
\* the treasury rises by the amount the stake lost.
C22_SlashAmount ==
    [][\A e \in ConfigEntities, reason \in Reasons, task_id \in SlashTasks :
          (Get(stakes, e, 0) > 0 /\ Slash(e, reason, task_id, OkSave, SameStamp)) =>
             LET u == 100 * Unit
                 nearest == ((stakes[e] * slash_percent + u \div 2) \div u) * Unit
                 removed == IF nearest > 0 THEN nearest ELSE Unit
             IN
             /\ last'.err = "none"
             /\ Get(stakes', e, 0) = stakes[e] - removed
             /\ balances'[treasury_name] = Get(balances, treasury_name, 0) + removed
             /\ balances'[treasury_name] - Get(balances, treasury_name, 0)
                   = stakes[e] - Get(stakes', e, 0)]_vars

\* C25: under every configured precision, every record of the ledger has an
\* amount of at least one minimum unit at that precision.
C25_RecordAmountPositive ==
    \A i \in 1..Len(ledger) : ledger[i].amount.v >= Unit

\* C30: in every reachable state is_eligible_validator(entity) is true exactly
\* when the stake of the entity, zero without an entry, is at least the required
\* minimum.
C30_Eligibility ==
    \A e \in Entities :
       is_eligible_validator(e) <=> Get(stakes, e, 0) >= validator_stake_required * Milli

C30_Witness ==
    /\ last.op = "slash" /\ last.err = "none"
    /\ Len(ledger) = 3 /\ ledger[2].type = "stake"
    /\ ledger[2].amount.v = validator_stake_required * Milli
    /\ ~is_eligible_validator(ledger[2].from_entity)
    /\ get_stake(ledger[2].from_entity) > 0

\* C26: for every limit >= 0, get_transactions(entity, limit) returns
\* min(limit, number of matching records) records: the most recently appended
\* records whose source or destination is entity (every record without an
\* entity), most recent first.
C26_RecentTransactions ==
    \A entity \in Entities \cup {NoEntity}, limit \in Limits :
       LET r == get_transactions(entity, limit)
           m == Filtered(ledger, entity)
           n == IF limit < Len(m) THEN limit ELSE Len(m)
       IN  /\ Len(r) = n
           /\ \A k \in 1..n : r[k] = m[Len(m) + 1 - k]
           /\ \A i \in 1..Len(m) :
                 entity # NoEntity => Involves(m[i], entity)

\* C28: the content hash of a record does not depend on its prev_hash: a record
\* of the ledger given an empty prev_hash and the same record given another one
\* have the same content hash.
C28_HashExcludesPrevHash ==
    \A i \in 1..Len(ledger) :
       compute_hash([ledger[i] EXCEPT !.prev_hash = NoHash])
          = compute_hash([ledger[i] EXCEPT !.prev_hash = <<"abc123">>])

\* C29: an escrow call with a valid amount and enough funds, for a task id whose
\* last escrow record is a release or a refund, succeeds: the task id had no hold,
\* the funder is debited by the amount and the table holds the new hold; and the
\* table holds a hold for a task id exactly when the last escrow record of that
\* id is an escrow, which that hold agrees with.
C29_SequentialReuse ==
    [][\A f \in FaultEntities, a \in FaultAmounts, t \in FaultTasks :
          (/\ LastEscrowRecord(ledger, t).type \in {"release", "refund"}
           /\ round_(a).v > 0 /\ Get(balances, f, 0) >= round_(a).v
           /\ Escrow(f, a, t, OkSave, SameStamp)) =>
             /\ last'.err = "none"
             /\ t \notin DOMAIN escrows
             /\ balances'[f] = balances[f] - round_(a).v
             /\ escrows'[t] = [from |-> f, amount |-> round_(a)]
             /\ \A u \in FaultTasks :
                   LET opened == LastEscrowRecord(ledger', u) IN
                   /\ u \in DOMAIN escrows' <=> opened.type = "escrow"
                   /\ u \in DOMAIN escrows' =>
                         /\ escrows'[u].from = opened.from_entity
                         /\ escrows'[u].amount = opened.amount]_vars

C29_Witness ==
    /\ last.op = "escrow" /\ last.err = "none"
    /\ Len(ledger) = 4
    /\ ledger[2].type = "escrow" /\ ledger[3].type \in {"release", "refund"}
    /\ ledger[4].type = "escrow" /\ ledger[4].task_id = ledger[2].task_id
    /\ ledger[4].task_id \in DOMAIN escrows

\* C27: a write of the caller to what get_all_balances, get_all_stakes or
\* get_transactions returned, a field of a returned record included, changes
\* neither the balances, the stakes or the ledger of the engine nor what
\* verify_chain() and the queries return afterwards.
C27_QueriesReturnCopies ==
    [][last'.op = "caller_write" =>
          /\ UNCHANGED <<balances, stakes, ledger>>
          /\ VerifyChain(ledger') = VerifyChain(ledger)
          /\ \A e \in Entities : get_balance(e)' = get_balance(e)
                                 /\ get_stake(e)' = get_stake(e)]_vars

\* C31: with hash chaining disabled every record appended has an empty prev_hash
\* and verify_chain() is true whatever the ledger holds, edited records included;
\* under either setting verify_chain() is true for an empty ledger and for a
\* ledger of one record.
C31_ChainDisabled ==
    /\ []((~hash_chain_enabled \/ Len(ledger) <= 1) => verify_chain)
    /\ [][(/\ ~hash_chain_enabled
            /\ last'.op \in MutatingOps /\ last'.err = "none") =>
              /\ Len(ledger') = Len(ledger) + 1
              /\ ledger'[Len(ledger')].prev_hash = NoHash]_vars

C31_Witness ==
    /\ ~hash_chain_enabled /\ tampered
    /\ last.op \in MutatingOps /\ last.err = "none"
    /\ Len(ledger) = 3 /\ ledger[3].prev_hash = NoHash
    /\ ledger[1].amount = TamperValue("amount")
    /\ verify_chain

C32_UniqueIds ==
    \A i \in 1..Len(ledger), j \in 1..Len(ledger) :
       i # j => ledger[i].id # ledger[j].id

\* m thousandths rounded half-up to the configured precision
C33_HalfUp(m) == ((m + Unit \div 2) \div Unit) * Unit

\* C33: an amount is rounded half-up to the configured decimals before it is
\* validated and used (an amount exactly halfway between two representable values
\* goes up), and every stored balance, stake, hold and record amount is a whole
\* multiple of the minimum unit.
C33_RoundHalfUp ==
    /\ [][\A e \in FaultEntities, a \in RoundAmounts, memo \in Memos :
             Mint(e, a, memo, OkSave, SameStamp) =>
                /\ last'.err = "none"
                /\ ledger'[Len(ledger')].amount.v = C33_HalfUp(a.v)
                /\ balances'[e] = Get(balances, e, 0) + C33_HalfUp(a.v)]_vars
    /\ []((\A e \in DOMAIN balances : balances[e] % Unit = 0)
           /\ (\A e \in DOMAIN stakes : stakes[e] % Unit = 0)
           /\ (\A t \in DOMAIN escrows : escrows[t].amount.v % Unit = 0)
           /\ (\A i \in 1..Len(ledger) : ledger[i].amount.v % Unit = 0))

\* C35: in the default configuration a slash of an entity with a stake succeeds
\* and lowers that stake by at least one minimum unit; when the slashing of an
\* entity is repeated and no stake call intervenes its entry is eventually
\* removed, and a slash of an entity without an entry fails with StakeNotFound.
C35_SlashDepletes ==
    /\ [][\A e \in Entities :
             /\ (e \in DOMAIN stakes /\ SlashCall(e)) =>
                   /\ last'.err = "none"
                   /\ Get(stakes', e, 0) <= stakes[e] - Unit
             /\ (e \notin DOMAIN stakes /\ SlashCall(e)) =>
                   /\ last'.err = "StakeNotFound"
                   /\ stakes' = stakes]_vars
    /\ \A e \in Entities : (e \in DOMAIN stakes) ~> (e \notin DOMAIN stakes)

C35_Witness ==
    /\ last.op = "slash" /\ last.err = "StakeNotFound"
    /\ Len(ledger) = 7 /\ ledger[2].type = "stake" /\ ledger[2].amount.v = 50
    /\ \A i \in 3..7 : ledger[i].type = "slash" /\ ledger[i].amount.v = 10
    /\ stakes = EmptyMap

\* the record a successful call appended has the type ty, the source src, the
\* destination dst and the task id task
C36_Appended(ty, src, dst, task) ==
    last'.err = "none" =>
       LET txn == ledger'[Len(ledger')] IN
       /\ Len(ledger') = Len(ledger) + 1
       /\ txn.type = ty /\ txn.from_entity = src /\ txn.to_entity = dst
       /\ txn.task_id = task

\* C36: the record of mint goes from the empty source to the credited entity; of
\* transfer from sender to receiver; of escrow from the funder to _escrow, with
\* the task id; of release from _escrow to the empty destination; of refund from
\* _escrow to the funder; of stake from the entity to _stake; of unstake from
\* _stake to the entity; of slash from the slashed entity to the treasury.
C36_RecordConvention ==
    [][/\ \A e \in Entities, a \in Amounts, memo \in Memos :
             Mint(e, a, memo, OkSave, SameStamp) => C36_Appended("mint", "", e, NoTask)
       /\ \A f \in Entities, t \in Entities, a \in Amounts, memo \in Memos :
             Transfer(f, t, a, memo, OkSave, SameStamp)
                => C36_Appended("transfer", f, t, NoTask)
       /\ \A f \in Entities, a \in Amounts, task_id \in Tasks :
             Escrow(f, a, task_id, OkSave, SameStamp)
                => C36_Appended("escrow", f, "_escrow", task_id)
       /\ \A task_id \in Tasks :
             ReleaseEscrow(task_id, OkSave, SameStamp)
                => C36_Appended("release", "_escrow", "", task_id)
       /\ \A task_id \in Tasks :
             RefundEscrow(task_id, OkSave, SameStamp)
                => (last'.err = "none"
                      => C36_Appended("refund", "_escrow", escrows[task_id].from, task_id))
       /\ \A e \in Entities, a \in Amounts :
             Stake(e, a, OkSave, SameStamp) => C36_Appended("stake", e, "_stake", NoTask)
       /\ \A e \in Entities, a \in Amounts \cup {NoneAmt} :
             Unstake(e, a, OkSave, SameStamp)
                => C36_Appended("unstake", "_stake", e, NoTask)
       /\ \A e \in Entities, reason \in Reasons, task_id \in SlashTasks :
             Slash(e, reason, task_id, OkSave, SameStamp)
                => C36_Appended("slash", e, treasury_name, task_id)]_vars

C36_Witness ==
    /\ last.op = "slash" /\ last.err = "none"
    /\ Len(ledger) = 3
    /\ ledger[1].type = "mint" /\ ledger[1].from_entity = ""
    /\ ledger[2].type = "stake" /\ ledger[2].to_entity = "_stake"
    /\ ledger[3].from_entity = "alice" /\ ledger[3].to_entity = treasury_name

\* no escrow record of l was appended for a task id that had an active hold
C37_NeverOverwritten(l) ==
    \A i \in 1..Len(l) :
       l[i].type = "escrow" =>
          LastEscrowRecord(SubSeq(l, 1, i - 1), l[i].task_id).type # "escrow"

\* C37: in the default configuration, as long as no escrow call was made for a
\* task id that had an active hold, sum(balances) + sum(active escrow holds) +
\* sum(stakes) equals the sum of the mint amounts minus the sum of the release
\* amounts.
C37_ConservationWithoutOverwrite ==
    C37_NeverOverwritten(ledger) => Total = Minted - Released

C37_Witness ==
    /\ C37_NeverOverwritten(ledger)
    /\ Len(ledger) = 3 /\ ledger[2].type = "escrow" /\ ledger[3].type = "release"
    /\ ledger[2].amount.v < ledger[1].amount.v
    /\ Total = ledger[1].amount.v - ledger[3].amount.v

\* C38: in every state of the default configuration the balance of an entity is
\* the sum of the mint, transfer, refund, unstake and slash records to it minus
\* the sum of the transfer, escrow and stake records from it, and its stake is
\* the sum of the stake records from it minus the sum of the unstake records to
\* it and of the slash records from it; the synthetic names have neither.
C38_DerivableFromLedger ==
    \A e \in Entities \cup {"", "_escrow", "_stake"} :
       /\ Get(balances, e, 0)
             = SumTo(ledger, {"mint", "transfer", "refund", "unstake", "slash"}, e)
               - SumFrom(ledger, {"transfer", "escrow", "stake"}, e)
       /\ Get(stakes, e, 0)
             = SumFrom(ledger, {"stake"}, e)
               - SumTo(ledger, {"unstake"}, e) - SumFrom(ledger, {"slash"}, e)
       /\ get_balance(e) = Get(balances, e, 0)
       /\ get_stake(e) = Get(stakes, e, 0)

C38_Witness ==
    /\ last.op = "slash" /\ last.err = "none"
    /\ Len(ledger) = 3 /\ ledger[2].type = "stake"
    /\ ledger[2].amount.v < ledger[1].amount.v
    /\ Get(balances, treasury_name, 0) = ledger[3].amount.v
    /\ Get(stakes, "alice", 0) = ledger[2].amount.v - ledger[3].amount.v
    /\ Get(balances, "alice", 0) = ledger[1].amount.v - ledger[2].amount.v

\* what C39 says of one call that debits src by the amount a: InvalidAmount when
\* the amount is not positive, whatever src holds, and InsufficientFunds only
\* for a positive amount above the balance
C39_Debits(src, a) ==
    LET amount == round_(a).v
        held == Get(balances, src, 0)
    IN  /\ amount <= 0 => last'.err = "InvalidAmount"
        /\ (amount > 0 /\ held < amount) => last'.err = "InsufficientBalance"
        /\ last'.err \in {"InvalidAmount", "InsufficientBalance", "none"}

====
